---- MODULE Spec2Model ----
(***************************************************************************)
(* Model of opendbc/car/hyundai/carcontroller.py: the per-tick steering    *)
(* command computation (torque mode and angle mode) and the cadence of the *)
(* outbound CAN / CAN FD messages of CarController.update.                 *)
(*                                                                         *)
(* Fixed-point units (the code computes in floats):                        *)
(*   angles        centi-degrees      (1 deg      = 100)                   *)
(*   speeds        decimetres/second  (1 m/s      = 10)                    *)
(*   gains         thousandths        (1.0        = 1000)                  *)
(*   accelerations centi-m/s^2        (1 m/s^2    = 100)                   *)
(*   torque fraction thousandths      (1.0        = 1000)                  *)
(*   curvature     1e-5 1/m, steer angle in 1e-5 rad inside the kinematics *)
(* Ticks are integers; DT_CTRL is 0.01 s, so a time threshold is a number  *)
(* of ticks.                                                               *)
(*                                                                         *)
(* The sub-controllers (ESCC, interceptor, MADS, LongitudinalController)   *)
(* appear by the capability flags update reads from them; the payload      *)
(* encoders of hyundaican / hyundaicanfd appear by the name of the builder *)
(* and the arguments update hands them. new_actuators.accel, which is the  *)
(* LongitudinalController's tuning.actual_accel, and the HUD fields of     *)
(* process_hud_alert are not part of the state.                            *)
(***************************************************************************)
EXTENDS Integers, Sequences, FiniteSets, TLC

VARIABLES
  frame,                \* self.frame: the tick counter
  angle_limit_counter,  \* self.angle_limit_counter
  accel_last,           \* self.accel_last
  apply_torque_last,    \* self.apply_torque_last
  last_button_frame,    \* self.last_button_frame
  apply_angle_last,     \* self.apply_angle_last
  CP,                   \* platform: CP.flags, openpilotLongitudinalControl, ESCC, interceptor
  tuning,               \* the gain tuning read once in __init__
  CC,                   \* the CarControl given to the last update call
  CS,                   \* the CarState given to the last update call
  new_actuators,        \* the actuator state the last update call returned
  can_sends,            \* the message list the last update call returned
  sent,                 \* history: per category, on how many ticks it was emitted
  hist                  \* history: resume_held, resume was requested (and cancel not) on every
                        \* tick so far; since_resume, the ticks since the last resume batch,
                        \* 10 standing for 10 or more and for no batch yet; override_ticks,
                        \* the latest ticks in a row with lateral control active and the
                        \* driver pressing the wheel; override_from, the persisted torque
                        \* those ticks started from

vars == <<frame, angle_limit_counter, accel_last, apply_torque_last, last_button_frame,
          apply_angle_last, CP, tuning, CC, CS, new_actuators, can_sends, sent, hist>>

---------------------------------------------------------------------------
(* Bounds of the model *)

\* ticks run by the steering specification
MaxSteerFrame == 4
\* ticks run by the cadence specification on a platform with openpilot longitudinal control
MaxFrame == 500
\* ticks run by the cadence specification on a platform with stock longitudinal control
MaxButtonFrame == 120

---------------------------------------------------------------------------
(* Numeric helpers *)

Min(a, b) == IF a < b THEN a ELSE b
Max(a, b) == IF a > b THEN a ELSE b
Abs(a) == IF a < 0 THEN -a ELSE a
\* np.clip(x, lo, hi) = minimum(maximum(x, lo), hi)
Clip(x, lo, hi) == Min(Max(x, lo), hi)

\* round(n / d) of Python 3 (round half to even), d > 0
Round(n, d) ==
  LET q == n \div d
      r == n - q * d
  IN  IF 2 * r < d THEN q
      ELSE IF 2 * r > d THEN q + 1
      ELSE IF q % 2 = 0 THEN q ELSE q + 1

\* np.interp(x, xs, ys): piecewise linear, clamped outside the table
RECURSIVE InterpFrom(_, _, _, _)
InterpFrom(x, xs, ys, i) ==
  IF i >= Len(xs) THEN ys[Len(ys)]
  ELSE IF x <= xs[i + 1]
       THEN ys[i] + ((ys[i + 1] - ys[i]) * (x - xs[i])) \div (xs[i + 1] - xs[i])
       ELSE InterpFrom(x, xs, ys, i + 1)

Interp(x, xs, ys) == IF x <= xs[1] THEN ys[1] ELSE InterpFrom(x, xs, ys, 1)

\* [m] * n
Repeat(m, n) == [i \in 1..n |-> m]

---------------------------------------------------------------------------
(* Module constants of carcontroller.py *)

MAX_ANGLE == 8500
MAX_ANGLE_FRAMES == 89
MAX_ANGLE_CONSECUTIVE_FRAMES == 2
MAX_ANGLE_RATE == 500

\* opendbc.car: DT_CTRL = 0.01 s, in centiseconds
DT_CTRL == 1
\* AVERAGE_ROAD_ROLL = 0.06, in thousandths
AVERAGE_ROAD_ROLL == 60
\* opendbc.car: ACCELERATION_DUE_TO_GRAVITY = 9.81 m/s^2, in 1e-5 units
ACCELERATION_DUE_TO_GRAVITY == 981000
\* opendbc.car.interfaces: ISO_LATERAL_ACCEL = 3.0 m/s^2, in 1e-5 units
ISO_LATERAL_ACCEL == 300000
\* 3.0 + 9.81 * 0.06 = 3.5886, both in 1e-5 units
MAX_LATERAL_ACCEL == ISO_LATERAL_ACCEL + (ACCELERATION_DUE_TO_GRAVITY * AVERAGE_ROAD_ROLL) \div 1000
MAX_LATERAL_JERK == 300000 + (ACCELERATION_DUE_TO_GRAVITY * AVERAGE_ROAD_ROLL) \div 1000

(* CarControllerParams (opendbc/car/hyundai/values.py) *)
STEER_MAX == 384
STEER_DELTA_UP == 3
STEER_DELTA_DOWN == 7
STEER_DRIVER_ALLOWANCE == 50
STEER_DRIVER_MULTIPLIER == 2
STEER_DRIVER_FACTOR == 1
ACCEL_MIN == -350
ACCEL_MAX == 200
\* ANGLE_LIMITS.STEER_ANGLE_MAX
STEER_ANGLE_MAX == 18000
SMOOTHING_ANGLE_VEGO_MATRIX == <<0, 85, 110, 138, 222>>
SMOOTHING_ANGLE_ALPHA_MATRIX == <<50, 100, 300, 600, 1000>>
SMOOTHING_ANGLE_MAX_VEGO == 222

(* The reference vehicle model VehicleModel(get_safety_CP()) *)
\* steerRatio, in tenths
VM_sR == 141
\* wheelbase in metres, in hundredths
VM_l == 295
\* -slip factor per (dm/s)^2, in 1e-8 units: 1 - sF * u^2 = 1 + 6e-4 * (v/10)^2
VM_sF == 600

---------------------------------------------------------------------------
(* The kinematic model and the limits derived from it *)

\* VM.get_steer_from_curvature(curvature, v, roll = 0), curvature in 1e-5 1/m, result in
\* 1e-5 rad: curvature * sR * l * (1 - sF * v^2)
GetSteerFromCurvature(curvature, v) ==
  LET flat == (curvature * ((VM_sR * VM_l) \div 100)) \div 10
      factor_pct == 100 + (VM_sF * v * v) \div 1000000
  IN  (flat * factor_pct) \div 100

\* math.degrees of an angle in 1e-5 rad, in centi-degrees (180 / pi = 57.3)
Degrees(x) == ((x \div 100) * 573) \div 100

\* get_max_angle_delta(v_ego_raw, VM, freq = 100): v in dm/s, v >= 10
get_max_angle_delta(v) ==
  LET max_curvature_rate_sec == (MAX_LATERAL_JERK * 100) \div (v * v)
      max_angle_rate_sec == Degrees(GetSteerFromCurvature(max_curvature_rate_sec, v))
  IN  max_angle_rate_sec \div 100

\* get_max_angle(v_ego_raw, VM)
get_max_angle(v) ==
  LET max_curvature == (MAX_LATERAL_ACCEL * 100) \div (v * v)
  IN  Degrees(GetSteerFromCurvature(max_curvature, v))

\* sp_smooth_angle(v_ego_raw, apply_angle, apply_angle_last); the dead zone is 0.1 deg
sp_smooth_angle(v, apply_angle, angle_last) ==
  IF Abs(apply_angle - angle_last) > 10
  THEN LET adjusted_alpha == Interp(v, SMOOTHING_ANGLE_VEGO_MATRIX, SMOOTHING_ANGLE_ALPHA_MATRIX)
           adjusted_alpha_limited == Min(adjusted_alpha, 1000)
       IN  (apply_angle * adjusted_alpha_limited
              + angle_last * (1000 - adjusted_alpha_limited)) \div 1000
  ELSE apply_angle

\* opendbc.car.rate_limit(new_value, last_value, dw_step, up_step)
rate_limit(new_value, last_value, dw_step, up_step) ==
  Clip(new_value, last_value + dw_step, last_value + up_step)

---------------------------------------------------------------------------
(* Steering: the angle limiter and the torque reduction gain (angle mode) *)

\* the limiter without its final clamp to the platform's maximum steering angle
apply_hyundai_steer_angle_limits_unclamped(lat_active, v_ego_raw, steering_angle, apply_angle, angle_last, enable_smoothing) ==
  LET clipped == Clip(apply_angle, -81920, 81910)
      smoothed == IF enable_smoothing /\ Abs(v_ego_raw) < SMOOTHING_ANGLE_MAX_VEGO
                  THEN sp_smooth_angle(v_ego_raw, clipped, angle_last)
                  ELSE clipped
      max_angle_delta == Min(get_max_angle_delta(Max(v_ego_raw, 10)), MAX_ANGLE_RATE)
      rate_limited == rate_limit(smoothed, angle_last, -max_angle_delta, max_angle_delta)
      max_angle == get_max_angle(Max(v_ego_raw, 10))
      accel_limited == Clip(rate_limited, -max_angle, max_angle)
  IN  IF ~lat_active THEN steering_angle ELSE accel_limited

\* the limiter that keeps on limiting while lateral control is inactive
apply_hyundai_steer_angle_limits_always(lat_active, v_ego_raw, steering_angle, apply_angle, angle_last, enable_smoothing) ==
  LET clipped == Clip(apply_angle, -81920, 81910)
      smoothed == IF enable_smoothing /\ Abs(v_ego_raw) < SMOOTHING_ANGLE_MAX_VEGO
                  THEN sp_smooth_angle(v_ego_raw, clipped, angle_last)
                  ELSE clipped
      max_angle_delta == Min(get_max_angle_delta(Max(v_ego_raw, 10)), MAX_ANGLE_RATE)
      rate_limited == rate_limit(smoothed, angle_last, -max_angle_delta, max_angle_delta)
      max_angle == get_max_angle(Max(v_ego_raw, 10))
      accel_limited == Clip(rate_limited, -max_angle, max_angle)
  IN  Clip(accel_limited, -STEER_ANGLE_MAX, STEER_ANGLE_MAX)

\* the limiter whose rate limit is taken around the measured steering angle
apply_hyundai_steer_angle_limits_from_measured(lat_active, v_ego_raw, steering_angle, apply_angle, angle_last, enable_smoothing) ==
  LET clipped == Clip(apply_angle, -81920, 81910)
      smoothed == IF enable_smoothing /\ Abs(v_ego_raw) < SMOOTHING_ANGLE_MAX_VEGO
                  THEN sp_smooth_angle(v_ego_raw, clipped, angle_last)
                  ELSE clipped
      max_angle_delta == Min(get_max_angle_delta(Max(v_ego_raw, 10)), MAX_ANGLE_RATE)
      rate_limited == rate_limit(smoothed, steering_angle, -max_angle_delta, max_angle_delta)
      max_angle == get_max_angle(Max(v_ego_raw, 10))
      accel_limited == Clip(rate_limited, -max_angle, max_angle)
      new_apply_angle == IF ~lat_active THEN steering_angle ELSE accel_limited
  IN  Clip(new_apply_angle, -STEER_ANGLE_MAX, STEER_ANGLE_MAX)

\* CarController.apply_hyundai_steer_angle_limits; the hardware-encodable range is
\* [-819.2, 819.1] deg
apply_hyundai_steer_angle_limits(lat_active, v_ego_raw, steering_angle, apply_angle, angle_last, enable_smoothing) ==
  LET clipped == Clip(apply_angle, -81920, 81910)
      smoothed == IF enable_smoothing /\ Abs(v_ego_raw) < SMOOTHING_ANGLE_MAX_VEGO
                  THEN sp_smooth_angle(v_ego_raw, clipped, angle_last)
                  ELSE clipped
      max_angle_delta == Min(get_max_angle_delta(Max(v_ego_raw, 10)), MAX_ANGLE_RATE)
      rate_limited == rate_limit(smoothed, angle_last, -max_angle_delta, max_angle_delta)
      max_angle == get_max_angle(Max(v_ego_raw, 10))
      accel_limited == Clip(rate_limited, -max_angle, max_angle)
      new_apply_angle == IF ~lat_active THEN steering_angle ELSE accel_limited
  IN  Clip(new_apply_angle, -STEER_ANGLE_MAX, STEER_ANGLE_MAX)

\* the gain that goes straight to its target when the driver is not pressing
calculate_angle_torque_reduction_gain_direct(steeringPressed, target_torque_reduction_gain, torque_last, tn) ==
  IF steeringPressed
  THEN LET torque_delta == torque_last - tn.min_torque_reduction_gain
           adaptive_ramp_rate == Max(torque_delta \div tn.angle_torque_override_cycles, 4)
       IN  Max(torque_last - adaptive_ramp_rate, tn.min_torque_reduction_gain)
  ELSE Clip(target_torque_reduction_gain,
            tn.active_torque_reduction_gain,
            tn.max_torque_reduction_gain)

\* the gain whose override ramp has no floor rate
calculate_angle_torque_reduction_gain_no_floor(steeringPressed, target_torque_reduction_gain, torque_last, tn) ==
  IF steeringPressed
  THEN LET torque_delta == torque_last - tn.min_torque_reduction_gain
           adaptive_ramp_rate == Max(torque_delta \div tn.angle_torque_override_cycles, 0)
       IN  Max(torque_last - adaptive_ramp_rate, tn.min_torque_reduction_gain)
  ELSE LET target_torque == Clip(target_torque_reduction_gain,
                                 tn.active_torque_reduction_gain,
                                 tn.max_torque_reduction_gain)
       IN  IF torque_last > target_torque
           THEN Max(torque_last - tn.ramp_down_reduction_gain_rate, target_torque)
           ELSE Min(torque_last + tn.ramp_up_reduction_gain_rate, target_torque)

\* CarController.calculate_angle_torque_reduction_gain; the floor rate is 0.004
calculate_angle_torque_reduction_gain(steeringPressed, target_torque_reduction_gain, torque_last, tn) ==
  IF steeringPressed
  THEN LET torque_delta == torque_last - tn.min_torque_reduction_gain
           adaptive_ramp_rate == Max(torque_delta \div tn.angle_torque_override_cycles, 4)
       IN  Max(torque_last - adaptive_ramp_rate, tn.min_torque_reduction_gain)
  ELSE LET target_torque == Clip(target_torque_reduction_gain,
                                 tn.active_torque_reduction_gain,
                                 tn.max_torque_reduction_gain)
       IN  IF torque_last > target_torque
           THEN Max(torque_last - tn.ramp_down_reduction_gain_rate, target_torque)
           ELSE Min(torque_last + tn.ramp_up_reduction_gain_rate, target_torque)

\* CarController.update_angle_steering_control: <<new_angle, torque_reduction_gain>>
update_angle_steering_control(cs, cc, torque_last, angle_last, tn) ==
  <<apply_hyundai_steer_angle_limits(cc.latActive, cs.out.vEgoRaw, cs.out.steeringAngleDeg,
                                     cc.actuators.steeringAngleDeg, angle_last,
                                     tn.angle_enable_smoothing_factor),
    calculate_angle_torque_reduction_gain(cs.out.steeringPressed, Abs(cc.actuators.torque),
                                          torque_last, tn)>>

\* the angle branch without its safety clamp
SafetyClampMissing(apply_torque, tn) == apply_torque

\* update, the "Safety clamp" of the angle branch
SafetyClamp(apply_torque, tn) ==
  Clip(apply_torque, tn.min_torque_reduction_gain, tn.max_torque_reduction_gain)

---------------------------------------------------------------------------
(* Steering: torque mode *)

\* opendbc.car.common_fault_avoidance: <<above_limit_frames, request>>
common_fault_avoidance(fault_condition, request, above_limit_frames, max_above_limit_frames, max_mismatching_frames) ==
  LET counted == IF request /\ fault_condition THEN above_limit_frames + 1 ELSE 0
      allowed == request /\ ~(counted > max_above_limit_frames)
      kept == IF counted >= max_above_limit_frames + max_mismatching_frames THEN 0 ELSE counted
  IN  <<kept, allowed>>

\* opendbc.car.apply_driver_steer_torque_limits
apply_driver_steer_torque_limits(apply_torque, torque_last, driver_torque) ==
  LET driver_max_torque == STEER_MAX + (STEER_DRIVER_ALLOWANCE + driver_torque * STEER_DRIVER_FACTOR)
                                         * STEER_DRIVER_MULTIPLIER
      driver_min_torque == -STEER_MAX + (-STEER_DRIVER_ALLOWANCE + driver_torque * STEER_DRIVER_FACTOR)
                                          * STEER_DRIVER_MULTIPLIER
      max_steer_allowed == Max(Min(STEER_MAX, driver_max_torque), 0)
      min_steer_allowed == Min(Max(-STEER_MAX, driver_min_torque), 0)
      limited == Clip(apply_torque, min_steer_allowed, max_steer_allowed)
  IN  IF torque_last > 0
      THEN Clip(limited, Max(torque_last - STEER_DELTA_DOWN, -STEER_DELTA_UP),
                torque_last + STEER_DELTA_UP)
      ELSE Clip(limited, torque_last - STEER_DELTA_UP,
                Min(torque_last + STEER_DELTA_DOWN, STEER_DELTA_UP))

\* update, the steering branch: the fault counter, the angle, the torque before the
\* lateral-inactive override, and the steer request
Steering(cp, tn, cc, cs, limit_counter, torque_last, angle_last) ==
  IF ~cp.CANFD_ANGLE_STEERING
  THEN LET fa == common_fault_avoidance(Abs(cs.out.steeringAngleDeg) >= MAX_ANGLE, cc.latActive,
                                        limit_counter, MAX_ANGLE_FRAMES,
                                        MAX_ANGLE_CONSECUTIVE_FRAMES)
           new_torque == Round(cc.actuators.torque * STEER_MAX, 1000)
       IN  [angle_limit_counter |-> fa[1],
            apply_angle_last |-> angle_last,
            apply_torque |-> apply_driver_steer_torque_limits(new_torque, torque_last,
                                                              cs.out.steeringTorque),
            apply_steer_req |-> fa[2]]
  ELSE LET ac == update_angle_steering_control(cs, cc, torque_last, angle_last, tn)
           clamped == SafetyClamp(ac[2], tn)
       IN  [angle_limit_counter |-> limit_counter,
            apply_angle_last |-> ac[1],
            apply_torque |-> clamped,
            apply_steer_req |-> cc.latActive /\ clamped # 0]

\* the final torque without the override of an inactive tick
FinalTorqueKept(latActive, apply_torque) == apply_torque

\* update: "if not CC.latActive: apply_torque = 0"
FinalTorque(latActive, apply_torque) == IF ~latActive THEN 0 ELSE apply_torque

\* the fault flag that forgets whether lateral control is active
TorqueFaultInactive(latActive, apply_steer_req) == ~apply_steer_req

\* update: "torque_fault = CC.latActive and not apply_steer_req"
TorqueFault(latActive, apply_steer_req) == latActive /\ ~apply_steer_req

\* the echoed actuator state with the requested angle in place of the applied one
NewActuatorsRequested(actuators, apply_torque, angle_last) ==
  [torque |-> <<apply_torque, STEER_MAX>>,
   torqueOutputCan |-> apply_torque,
   steeringAngleDeg |-> actuators.steeringAngleDeg]

\* update: the echoed actuator state; torque is apply_torque / STEER_MAX, kept as a fraction
NewActuators(actuators, apply_torque, angle_last) ==
  [torque |-> <<apply_torque, STEER_MAX>>,
   torqueOutputCan |-> apply_torque,
   steeringAngleDeg |-> angle_last]

---------------------------------------------------------------------------
(* Outbound messages: a message is the name of its builder and the arguments the
   controller computed for it; a builder that returns a list is one entry *)

Msg(name, args) == [name |-> name, args |-> args]

Names(msgs) == {msgs[i].name : i \in DOMAIN msgs}
Count(msgs, names) == Cardinality({i \in DOMAIN msgs : msgs[i].name \in names})

\* tester present without the check of the camera-SCC platform flag
TesterPresentCameraScc(fr, cp) ==
  IF fr % 100 = 0
     /\ ~(cp.ESCC_enabled \/ cp.interceptor_available)
     /\ cp.openpilotLongitudinalControl
  THEN <<Msg("tester_present", [addr |-> IF cp.CANFD_LKA_STEERING THEN "0x730" ELSE "0x7d0"])>>
       \o (IF cp.ENABLE_BLINKERS THEN <<Msg("tester_present", [addr |-> "0x7b1"])>> ELSE <<>>)
  ELSE <<>>

\* update: tester present, every 100 ticks
TesterPresent(fr, cp) ==
  IF fr % 100 = 0
     /\ ~(cp.CANFD_CAMERA_SCC \/ cp.ESCC_enabled \/ cp.interceptor_available)
     /\ cp.openpilotLongitudinalControl
  THEN <<Msg("tester_present", [addr |-> IF cp.CANFD_LKA_STEERING THEN "0x730" ELSE "0x7d0"])>>
       \o (IF cp.ENABLE_BLINKERS THEN <<Msg("tester_present", [addr |-> "0x7b1"])>> ELSE <<>>)
  ELSE <<>>

(* create_can_msgs: the legacy bus *)

\* hyundaican.create_lkas11
Lkas11(apply_steer_req, apply_torque, torque_fault) ==
  <<Msg("lkas11", [apply_torque |-> apply_torque, apply_steer_req |-> apply_steer_req,
                   torque_fault |-> torque_fault])>>

\* the button messages whose cancel moves the latch
ButtonMessagesCancelLatch(fr, button_frame, cp, cc) ==
  IF cp.openpilotLongitudinalControl
  THEN [can_sends |-> <<>>, last_button_frame |-> button_frame]
  ELSE IF cc.cruiseControl.cancel
  THEN [can_sends |-> <<Msg("clu11", [button |-> "CANCEL"])>>, last_button_frame |-> fr]
  ELSE IF cc.cruiseControl.resume /\ (fr - button_frame) * DT_CTRL > 10
  THEN [can_sends |-> Repeat(Msg("clu11", [button |-> "RES_ACCEL"]), 25),
        last_button_frame |-> IF (fr - button_frame) * DT_CTRL >= 15 THEN fr ELSE button_frame]
  ELSE [can_sends |-> <<>>, last_button_frame |-> button_frame]

\* the button messages sent whoever manages longitudinal control
ButtonMessagesAnyLong(fr, button_frame, cp, cc) ==
  IF cc.cruiseControl.cancel
  THEN [can_sends |-> <<Msg("clu11", [button |-> "CANCEL"])>>, last_button_frame |-> button_frame]
  ELSE IF cc.cruiseControl.resume /\ (fr - button_frame) * DT_CTRL > 10
  THEN [can_sends |-> Repeat(Msg("clu11", [button |-> "RES_ACCEL"]), 25),
        last_button_frame |-> IF (fr - button_frame) * DT_CTRL >= 15 THEN fr ELSE button_frame]
  ELSE [can_sends |-> <<>>, last_button_frame |-> button_frame]

\* create_can_msgs, "Button messages": [can_sends, last_button_frame]
ButtonMessages(fr, button_frame, cp, cc) ==
  IF cp.openpilotLongitudinalControl
  THEN [can_sends |-> <<>>, last_button_frame |-> button_frame]
  ELSE IF cc.cruiseControl.cancel
  THEN [can_sends |-> <<Msg("clu11", [button |-> "CANCEL"])>>, last_button_frame |-> button_frame]
  ELSE IF cc.cruiseControl.resume /\ (fr - button_frame) * DT_CTRL > 10
  THEN [can_sends |-> Repeat(Msg("clu11", [button |-> "RES_ACCEL"]), 25),
        last_button_frame |-> IF (fr - button_frame) * DT_CTRL >= 15 THEN fr ELSE button_frame]
  ELSE [can_sends |-> <<>>, last_button_frame |-> button_frame]

\* the acceleration command sent on every tick
AccCommandsEveryTick(fr, cp, accel) ==
  IF cp.openpilotLongitudinalControl
  THEN <<Msg("acc_commands", [accel |-> accel, idx |-> fr \div 2])>>
  ELSE <<>>

\* create_can_msgs: hyundaican.create_acc_commands, every 2nd tick
AccCommands(fr, cp, accel) ==
  IF fr % 2 = 0 /\ cp.openpilotLongitudinalControl
  THEN <<Msg("acc_commands", [accel |-> accel, idx |-> fr \div 2])>>
  ELSE <<>>

\* the LFA icon sent only under openpilot longitudinal control
LfaHdaMfcLongOnly(fr, cp) ==
  IF fr % 5 = 0 /\ cp.SEND_LFA /\ cp.openpilotLongitudinalControl
  THEN <<Msg("lfahda_mfc", <<>>)>>
  ELSE <<>>

\* create_can_msgs: "20 Hz LFA MFA message"
LfaHdaMfc(fr, cp) ==
  IF fr % 5 = 0 /\ cp.SEND_LFA THEN <<Msg("lfahda_mfc", <<>>)>> ELSE <<>>

\* create_can_msgs: "5 Hz ACC options"
AccOpt(fr, cp) ==
  IF fr % 20 = 0 /\ cp.openpilotLongitudinalControl THEN <<Msg("acc_opt", <<>>)>> ELSE <<>>

\* the radar options sent whether or not ESCC is enabled
FrtRadarOptAlways(fr, cp) ==
  IF fr % 50 = 0 /\ cp.openpilotLongitudinalControl THEN <<Msg("frt_radar_opt", <<>>)>> ELSE <<>>

\* create_can_msgs: "2 Hz front radar options"
FrtRadarOpt(fr, cp) ==
  IF fr % 50 = 0 /\ cp.openpilotLongitudinalControl /\ ~cp.ESCC_enabled
  THEN <<Msg("frt_radar_opt", <<>>)>>
  ELSE <<>>

\* the legacy list with the LFA icon right after the steering command
create_can_msgs_icon_first(fr, button_frame, cp, cc, apply_steer_req, apply_torque, torque_fault, accel) ==
  LET buttons == ButtonMessages(fr, button_frame, cp, cc)
  IN  [can_sends |-> Lkas11(apply_steer_req, apply_torque, torque_fault)
                     \o LfaHdaMfc(fr, cp)
                     \o buttons.can_sends
                     \o AccCommands(fr, cp, accel)
                     \o AccOpt(fr, cp)
                     \o FrtRadarOpt(fr, cp),
       last_button_frame |-> buttons.last_button_frame]

\* CarController.create_can_msgs: [can_sends, last_button_frame]
create_can_msgs(fr, button_frame, cp, cc, apply_steer_req, apply_torque, torque_fault, accel) ==
  LET buttons == ButtonMessages(fr, button_frame, cp, cc)
  IN  [can_sends |-> Lkas11(apply_steer_req, apply_torque, torque_fault)
                     \o buttons.can_sends
                     \o AccCommands(fr, cp, accel)
                     \o LfaHdaMfc(fr, cp)
                     \o AccOpt(fr, cp)
                     \o FrtRadarOpt(fr, cp),
       last_button_frame |-> buttons.last_button_frame]

(* create_canfd_msgs: the extended bus *)

\* create_canfd_msgs: the interceptor message and the steering messages
SteeringMessages(cp, apply_steer_req, apply_torque, angle_last) ==
  (IF cp.interceptor_available THEN <<Msg("adas_drv_intercept", <<>>)>> ELSE <<>>)
  \o <<Msg("steering_messages", [apply_steer_req |-> apply_steer_req,
                                 apply_torque |-> apply_torque,
                                 apply_angle |-> angle_last])>>

\* create_canfd_msgs: suppress LFA on LKA steering cars, every 5th tick
SuppressLfa(fr, cp) ==
  IF fr % 5 = 0 /\ cp.CANFD_LKA_STEERING THEN <<Msg("suppress_lfa", <<>>)>> ELSE <<>>

\* create_canfd_msgs: "LFA and HDA icons", every 5th tick
LfaHdaCluster(fr, cp) ==
  IF fr % 5 = 0
     /\ (~cp.CANFD_LKA_STEERING \/ (cp.CANFD_LKA_STEERING /\ cp.openpilotLongitudinalControl))
  THEN <<Msg("lfahda_cluster", <<>>)>>
  ELSE <<>>

\* create_canfd_msgs: "blinkers"
SpasMessages(cp) ==
  IF cp.CANFD_LKA_STEERING /\ cp.ENABLE_BLINKERS THEN <<Msg("spas_messages", <<>>)>> ELSE <<>>

\* the longitudinal branch that persists the acceleration on every tick
CanfdLongitudinalPersistAlways(fr, cp, acc_last, accel) ==
  LET adrv == IF cp.CANFD_LKA_STEERING
              THEN (IF ~cp.interceptor_available THEN <<Msg("adrv_messages", <<>>)>> ELSE <<>>)
              ELSE <<Msg("fca_warning_light", <<>>)>>
  IN  IF fr % 2 = 0
      THEN [can_sends |-> adrv \o <<Msg("acc_control", [accel_last |-> acc_last, accel |-> accel])>>,
            accel_last |-> accel]
      ELSE [can_sends |-> adrv, accel_last |-> accel]

\* create_canfd_msgs, the openpilotLongitudinalControl branch: [can_sends, accel_last]
CanfdLongitudinal(fr, cp, acc_last, accel) ==
  LET adrv == IF cp.CANFD_LKA_STEERING
              THEN (IF ~cp.interceptor_available THEN <<Msg("adrv_messages", <<>>)>> ELSE <<>>)
              ELSE <<Msg("fca_warning_light", <<>>)>>
  IN  IF fr % 2 = 0
      THEN [can_sends |-> adrv \o <<Msg("acc_control", [accel_last |-> acc_last, accel |-> accel])>>,
            accel_last |-> accel]
      ELSE [can_sends |-> adrv, accel_last |-> acc_last]

\* the button presses gated at 0.25 s elapsed or more
CanfdButtonsEarly(fr, button_frame, cp, cc) ==
  IF ~((fr - button_frame) * DT_CTRL >= 25)
  THEN [can_sends |-> <<>>, last_button_frame |-> button_frame]
  ELSE IF cc.cruiseControl.cancel
  THEN [can_sends |-> IF cp.CANFD_ALT_BUTTONS
                      THEN <<Msg("acc_cancel", <<>>)>>
                      ELSE Repeat(Msg("buttons", [button |-> "CANCEL"]), 20),
        last_button_frame |-> fr]
  ELSE IF cc.cruiseControl.resume /\ ~cp.CANFD_ALT_BUTTONS
  THEN [can_sends |-> Repeat(Msg("buttons", [button |-> "RES_ACCEL"]), 20),
        last_button_frame |-> fr]
  ELSE [can_sends |-> <<>>, last_button_frame |-> button_frame]

\* the button presses with a cancel that does not wait for the 0.25 s to elapse
CanfdButtonsCancelNow(fr, button_frame, cp, cc) ==
  IF cc.cruiseControl.cancel
  THEN [can_sends |-> IF cp.CANFD_ALT_BUTTONS
                      THEN <<Msg("acc_cancel", <<>>)>>
                      ELSE Repeat(Msg("buttons", [button |-> "CANCEL"]), 20),
        last_button_frame |-> fr]
  ELSE IF ~((fr - button_frame) * DT_CTRL > 25)
  THEN [can_sends |-> <<>>, last_button_frame |-> button_frame]
  ELSE IF cc.cruiseControl.resume /\ ~cp.CANFD_ALT_BUTTONS
  THEN [can_sends |-> Repeat(Msg("buttons", [button |-> "RES_ACCEL"]), 20),
        last_button_frame |-> fr]
  ELSE [can_sends |-> <<>>, last_button_frame |-> button_frame]

\* create_canfd_msgs, "button presses": [can_sends, last_button_frame]
CanfdButtons(fr, button_frame, cp, cc) ==
  IF ~((fr - button_frame) * DT_CTRL > 25)
  THEN [can_sends |-> <<>>, last_button_frame |-> button_frame]
  ELSE IF cc.cruiseControl.cancel
  THEN [can_sends |-> IF cp.CANFD_ALT_BUTTONS
                      THEN <<Msg("acc_cancel", <<>>)>>
                      ELSE Repeat(Msg("buttons", [button |-> "CANCEL"]), 20),
        last_button_frame |-> fr]
  ELSE IF cc.cruiseControl.resume /\ ~cp.CANFD_ALT_BUTTONS
  THEN [can_sends |-> Repeat(Msg("buttons", [button |-> "RES_ACCEL"]), 20),
        last_button_frame |-> fr]
  ELSE [can_sends |-> <<>>, last_button_frame |-> button_frame]

\* CarController.create_canfd_msgs: [can_sends, last_button_frame, accel_last]
create_canfd_msgs(fr, button_frame, acc_last, angle_last, cp, cc, apply_steer_req, apply_torque, accel) ==
  LET head == SteeringMessages(cp, apply_steer_req, apply_torque, angle_last)
              \o SuppressLfa(fr, cp)
              \o LfaHdaCluster(fr, cp)
              \o SpasMessages(cp)
      long == CanfdLongitudinal(fr, cp, acc_last, accel)
      buttons == CanfdButtons(fr, button_frame, cp, cc)
  IN  IF cp.openpilotLongitudinalControl
      THEN [can_sends |-> head \o long.can_sends,
            last_button_frame |-> button_frame,
            accel_last |-> long.accel_last]
      ELSE [can_sends |-> head \o buttons.can_sends,
            last_button_frame |-> buttons.last_button_frame,
            accel_last |-> acc_last]

---------------------------------------------------------------------------
(* Message categories *)

KeepAlive == {"tester_present"}
SteeringCommand == {"lkas11", "steering_messages"}
LaneSuppression == {"suppress_lfa"}
LaneIcon == {"lfahda_mfc", "lfahda_cluster"}
ButtonMessage == {"clu11", "buttons", "acc_cancel"}
AccelCommand == {"acc_commands", "acc_control"}
AccOptions == {"acc_opt"}
RadarOption == {"frt_radar_opt"}

IsResume(m) == m.name \in {"clu11", "buttons"} /\ m.args.button = "RES_ACCEL"
IsCancel(m) == m.name = "acc_cancel" \/ (m.name \in {"clu11", "buttons"} /\ m.args.button = "CANCEL")
ResumeCount(msgs) == Cardinality({i \in DOMAIN msgs : IsResume(msgs[i])})
CancelCount(msgs) == Cardinality({i \in DOMAIN msgs : IsCancel(msgs[i])})

\* the history of emissions after one more tick
Tally(counts, msgs) ==
  [tester_present |-> counts.tester_present + (IF Count(msgs, KeepAlive) > 0 THEN 1 ELSE 0),
   accel |-> counts.accel + (IF Count(msgs, AccelCommand) > 0 THEN 1 ELSE 0),
   lane_icon |-> counts.lane_icon + Count(msgs, LaneIcon),
   acc_opt |-> counts.acc_opt + (IF Count(msgs, AccOptions) > 0 THEN 1 ELSE 0),
   frt_radar_opt |-> counts.frt_radar_opt + (IF Count(msgs, RadarOption) > 0 THEN 1 ELSE 0)]

---------------------------------------------------------------------------
(* CarController.update *)

\* update: accel = clip(actuators.accel, ACCEL_MIN, ACCEL_MAX)
Accel(actuators) == Clip(actuators.accel, ACCEL_MIN, ACCEL_MAX)

\* update: the messages of one tick, [can_sends, last_button_frame, accel_last]
Messages(fr, button_frame, acc_last, angle_last, cp, cc, apply_steer_req, apply_torque, torque_fault, accel) ==
  IF cp.CANFD
  THEN LET fd == create_canfd_msgs(fr, button_frame, acc_last, angle_last, cp, cc,
                                   apply_steer_req, apply_torque, accel)
       IN  [can_sends |-> TesterPresent(fr, cp) \o fd.can_sends,
            last_button_frame |-> fd.last_button_frame,
            accel_last |-> fd.accel_last]
  ELSE LET can == create_can_msgs(fr, button_frame, cp, cc, apply_steer_req, apply_torque,
                                  torque_fault, accel)
       IN  [can_sends |-> TesterPresent(fr, cp) \o can.can_sends,
            last_button_frame |-> can.last_button_frame,
            accel_last |-> acc_last]

Update(cc, cs) ==
  \E st \in {Steering(CP, tuning, cc, cs, angle_limit_counter, apply_torque_last, apply_angle_last)} :
  \E apply_torque \in {FinalTorque(cc.latActive, st.apply_torque)} :
  \E out \in {Messages(frame, last_button_frame, accel_last, st.apply_angle_last, CP, cc,
                       st.apply_steer_req, apply_torque,
                       TorqueFault(cc.latActive, st.apply_steer_req),
                       Accel(cc.actuators))} :
      /\ angle_limit_counter' = st.angle_limit_counter
      /\ apply_angle_last' = st.apply_angle_last
      /\ apply_torque_last' = apply_torque
      /\ last_button_frame' = out.last_button_frame
      /\ accel_last' = out.accel_last
      /\ can_sends' = out.can_sends
      /\ new_actuators' = NewActuators(cc.actuators, apply_torque, st.apply_angle_last)
      /\ frame' = frame + 1
      /\ CC' = cc
      /\ CS' = cs
      /\ sent' = Tally(sent, out.can_sends)
      /\ hist' = [resume_held |-> hist.resume_held /\ cc.cruiseControl.resume
                                  /\ ~cc.cruiseControl.cancel,
                  since_resume |-> IF ResumeCount(out.can_sends) > 0 THEN 0
                                   ELSE Min(hist.since_resume + 1, 10),
                  override_ticks |-> IF cc.latActive /\ cs.out.steeringPressed
                                     THEN hist.override_ticks + 1 ELSE 0,
                  override_from |-> IF cc.latActive /\ cs.out.steeringPressed
                                    THEN hist.override_from ELSE apply_torque]
      /\ UNCHANGED <<CP, tuning>>

---------------------------------------------------------------------------
(* Platforms, tuning and inputs *)

Platform(canfd, angle, long, camera_scc, escc, interceptor, lka, blinkers, send_lfa, alt_buttons) ==
  [CANFD |-> canfd, CANFD_ANGLE_STEERING |-> angle, openpilotLongitudinalControl |-> long,
   CANFD_CAMERA_SCC |-> camera_scc, ESCC_enabled |-> escc, interceptor_available |-> interceptor,
   CANFD_LKA_STEERING |-> lka, ENABLE_BLINKERS |-> blinkers, SEND_LFA |-> send_lfa,
   CANFD_ALT_BUTTONS |-> alt_buttons]

\* __init__: the CarControllerParams defaults
DefaultTuning ==
  [min_torque_reduction_gain |-> 100, max_torque_reduction_gain |-> 1000,
   active_torque_reduction_gain |-> 200, ramp_up_reduction_gain_rate |-> 5,
   ramp_down_reduction_gain_rate |-> 10, angle_torque_override_cycles |-> 25,
   angle_enable_smoothing_factor |-> TRUE]

\* __init__: the defaults overridden from Params
TunedTuning ==
  [min_torque_reduction_gain |-> 300, max_torque_reduction_gain |-> 500,
   active_torque_reduction_gain |-> 300, ramp_up_reduction_gain_rate |-> 5,
   ramp_down_reduction_gain_rate |-> 10, angle_torque_override_cycles |-> 2,
   angle_enable_smoothing_factor |-> FALSE]

IdleCC ==
  [latActive |-> FALSE,
   actuators |-> [torque |-> 0, steeringAngleDeg |-> 0, accel |-> 0],
   cruiseControl |-> [cancel |-> FALSE, resume |-> FALSE]]

IdleCS ==
  [out |-> [vEgoRaw |-> 0, steeringAngleDeg |-> 0, steeringTorque |-> 0, steeringPressed |-> FALSE]]

\* __init__
InitOn(platforms, tunings) ==
  /\ frame = 0
  /\ angle_limit_counter = 0
  /\ accel_last = 0
  /\ apply_torque_last = 0
  /\ last_button_frame = 0
  /\ apply_angle_last = 0
  /\ CP \in platforms
  /\ tuning \in tunings
  /\ CC = IdleCC
  /\ CS = IdleCS
  /\ new_actuators = [torque |-> <<0, STEER_MAX>>, torqueOutputCan |-> 0, steeringAngleDeg |-> 0]
  /\ can_sends = <<>>
  /\ sent = [tester_present |-> 0, accel |-> 0, lane_icon |-> 0, acc_opt |-> 0, frt_radar_opt |-> 0]
  /\ hist = [resume_held |-> TRUE, since_resume |-> 10, override_ticks |-> 0, override_from |-> 0]

(* The steering specification: few ticks, varied steering inputs *)

AngleCanfd == Platform(TRUE, TRUE, TRUE, FALSE, FALSE, FALSE, TRUE, FALSE, FALSE, FALSE)
TorqueCanfd == Platform(TRUE, FALSE, FALSE, FALSE, FALSE, FALSE, FALSE, FALSE, FALSE, FALSE)
TorqueLegacy == Platform(FALSE, FALSE, FALSE, FALSE, FALSE, FALSE, FALSE, FALSE, TRUE, FALSE)

SteerPlatforms == {AngleCanfd, TorqueCanfd, TorqueLegacy}

SteerCC(cp) ==
  [latActive : BOOLEAN,
   actuators : [torque : {-1000, 300},
                steeringAngleDeg : IF cp.CANFD_ANGLE_STEERING THEN {-90000, 1000, 90000} ELSE {0},
                accel : {0}],
   cruiseControl : [cancel : {FALSE}, resume : {FALSE}]]

SteerCS(cp) ==
  [out : [vEgoRaw : IF cp.CANFD_ANGLE_STEERING THEN {0, 200} ELSE {0},
          steeringAngleDeg : IF cp.CANFD_ANGLE_STEERING THEN {-20000, 0} ELSE {300, 9000},
          steeringTorque : IF cp.CANFD_ANGLE_STEERING THEN {0} ELSE {-300, 0},
          steeringPressed : IF cp.CANFD_ANGLE_STEERING THEN BOOLEAN ELSE {FALSE}]]

Init == InitOn(SteerPlatforms, {DefaultTuning, TunedTuning})

Next ==
  \E cc \in SteerCC(CP), cs \in SteerCS(CP) :
     /\ frame < MaxSteerFrame
     /\ Update(cc, cs)

Spec == Init /\ [][Next]_vars

(* The cadence specification: long runs, varied cruise and longitudinal inputs *)

LegacyLong == Platform(FALSE, FALSE, TRUE, FALSE, FALSE, FALSE, FALSE, FALSE, TRUE, FALSE)
LegacyLongEscc == Platform(FALSE, FALSE, TRUE, FALSE, TRUE, FALSE, FALSE, FALSE, FALSE, FALSE)
LegacyStock == Platform(FALSE, FALSE, FALSE, FALSE, FALSE, FALSE, FALSE, FALSE, TRUE, FALSE)
CanfdLong == Platform(TRUE, FALSE, TRUE, FALSE, FALSE, FALSE, TRUE, TRUE, FALSE, FALSE)
CanfdLongCamera == Platform(TRUE, FALSE, TRUE, TRUE, FALSE, FALSE, FALSE, FALSE, FALSE, FALSE)
CanfdLongInterceptor == Platform(TRUE, FALSE, TRUE, FALSE, FALSE, TRUE, TRUE, FALSE, FALSE, FALSE)
CanfdStock == Platform(TRUE, FALSE, FALSE, FALSE, FALSE, FALSE, FALSE, FALSE, FALSE, FALSE)
CanfdStockAlt == Platform(TRUE, FALSE, FALSE, FALSE, FALSE, FALSE, TRUE, FALSE, FALSE, TRUE)

CadencePlatforms ==
  {LegacyLong, LegacyLongEscc, LegacyStock, CanfdLong, CanfdLongCamera, CanfdLongInterceptor,
   CanfdStock, CanfdStockAlt}

CadenceCC(cp) ==
  [latActive : {TRUE},
   actuators : [torque : {0}, steeringAngleDeg : {0},
                accel : IF cp.openpilotLongitudinalControl THEN {-400, 100} ELSE {0}],
   cruiseControl : [cancel : BOOLEAN, resume : BOOLEAN]]

Horizon(cp) == IF cp.openpilotLongitudinalControl THEN MaxFrame ELSE MaxButtonFrame

InitCadence == InitOn(CadencePlatforms, {DefaultTuning})

NextCadence ==
  \E cc \in CadenceCC(CP) :
     /\ frame < Horizon(CP)
     /\ Update(cc, IdleCS)

SpecCadence == InitCadence /\ [][NextCadence]_vars

(* The override specification: angle mode, lateral control active and full torque requested
   on every tick; the driver takes the wheel on some tick and keeps hold of it *)

\* ticks run by the override specification
MaxOverrideFrame == 410

OverrideCC ==
  [latActive : {TRUE},
   actuators : [torque : {1000}, steeringAngleDeg : {0}, accel : {0}],
   cruiseControl : [cancel : {FALSE}, resume : {FALSE}]]

OverrideCS(pressed) ==
  [out : [vEgoRaw : {200}, steeringAngleDeg : {0}, steeringTorque : {0},
          steeringPressed : IF pressed THEN {TRUE} ELSE BOOLEAN]]

InitOverride == InitOn({AngleCanfd}, {DefaultTuning})

NextOverride ==
  \E cc \in OverrideCC, cs \in OverrideCS(CS.out.steeringPressed) :
     /\ frame < MaxOverrideFrame
     /\ Update(cc, cs)

SpecOverride == InitOverride /\ [][NextOverride]_vars

---------------------------------------------------------------------------
(* The fault specification: torque mode on both buses with no torque requested; lateral
   control comes and goes while the steering wheel is within or beyond the angle limit *)

\* ticks run by the fault specification
MaxFaultFrame == 95

FaultCC ==
  [latActive : BOOLEAN,
   actuators : [torque : {0}, steeringAngleDeg : {0}, accel : {0}],
   cruiseControl : [cancel : {FALSE}, resume : {FALSE}]]

FaultCS ==
  [out : [vEgoRaw : {0}, steeringAngleDeg : {300, 9000}, steeringTorque : {0},
          steeringPressed : {FALSE}]]

InitFault == InitOn({TorqueLegacy, TorqueCanfd}, {DefaultTuning})

NextFault ==
  \E cc \in FaultCC, cs \in FaultCS :
     /\ frame < MaxFaultFrame
     /\ Update(cc, cs)

SpecFault == InitFault /\ [][NextFault]_vars

(* Properties *)

\* the tick the last update call ran on
Tick == frame - 1

InGainRange(g) ==
  tuning.min_torque_reduction_gain <= g /\ g <= tuning.max_torque_reduction_gain

\* C1, as claimed: in angle mode, after any ticks, the gain returned as torque output and
\* the gain persisted as last-commanded torque lie in [minGain, maxGain].
C1_GainAlwaysInRange ==
  (CP.CANFD_ANGLE_STEERING /\ frame > 0)
    => (InGainRange(new_actuators.torqueOutputCan) /\ InGainRange(apply_torque_last))

\* C1, amended: in angle mode, after a tick with lateral control active the returned and the
\* persisted gain lie in [minGain, maxGain]; after a tick with lateral control inactive both
\* are 0.
C1_GainInRangeWhenActive ==
  (CP.CANFD_ANGLE_STEERING /\ frame > 0)
    => IF CC.latActive
       THEN InGainRange(new_actuators.torqueOutputCan) /\ InGainRange(apply_torque_last)
       ELSE new_actuators.torqueOutputCan = 0 /\ apply_torque_last = 0

\* C1: an active tick, not the first tick, that leaves the gain at the minimum gain
C1_Witness ==
  /\ CP.CANFD_ANGLE_STEERING
  /\ frame > 1
  /\ CC.latActive
  /\ ~CS.out.steeringPressed
  /\ apply_torque_last = tuning.min_torque_reduction_gain

\* C2: after any ticks, the persisted last-commanded angle and the returned
\* steeringAngleDeg lie in [-STEER_ANGLE_MAX, STEER_ANGLE_MAX].
C2_AngleInRange ==
  /\ -STEER_ANGLE_MAX <= apply_angle_last /\ apply_angle_last <= STEER_ANGLE_MAX
  /\ -STEER_ANGLE_MAX <= new_actuators.steeringAngleDeg
  /\ new_actuators.steeringAngleDeg <= STEER_ANGLE_MAX

\* C2: an active tick whose desired angle is beyond the maximum and whose command is held
\* at the maximum
C2_Witness ==
  /\ CP.CANFD_ANGLE_STEERING
  /\ CC.latActive
  /\ CC.actuators.steeringAngleDeg < -STEER_ANGLE_MAX
  /\ apply_angle_last = -STEER_ANGLE_MAX
  /\ new_actuators.steeringAngleDeg = -STEER_ANGLE_MAX

\* C3: after every tick (so at the start of the next one) the persisted last-commanded
\* torque and angle equal the torqueOutputCan and the steeringAngleDeg the tick returned.
C3_PersistedIsReturned ==
  frame > 0
    => /\ apply_torque_last = new_actuators.torqueOutputCan
       /\ apply_angle_last = new_actuators.steeringAngleDeg

\* C3: an angle-mode tick that returned a nonzero gain and an angle other than the
\* requested one
C3_Witness ==
  /\ frame > 1
  /\ CP.CANFD_ANGLE_STEERING
  /\ apply_torque_last # 0
  /\ apply_angle_last # 0
  /\ apply_angle_last # CC.actuators.steeringAngleDeg

\* C4, as claimed: legacy bus, stock longitudinal control, resume requested on every tick
\* from tick 0 and no cancel: tick 0 emits a batch of 25 resume messages and none of the
\* ticks 1..14 emits one (so the next batch is no earlier than tick 15).
C4_ResumeThrottle ==
  (~CP.CANFD /\ ~CP.openpilotLongitudinalControl /\ hist.resume_held /\ frame > 0)
    => /\ Tick = 0 => ResumeCount(can_sends) = 25
       /\ Tick \in 1..14 => ResumeCount(can_sends) = 0

\* C5, as claimed: legacy bus, stock longitudinal control: a tick that emits a resume batch
\* comes more than 10 ticks after the previous tick that emitted one.
C5_ResumeRateLimited ==
  [][(~CP.CANFD /\ ~CP.openpilotLongitudinalControl /\ ResumeCount(can_sends') = 25)
       => hist.since_resume + 1 > 10]_vars

\* C6: the platforms on which the claim expects the keep-alive
NoSubstitute(cp) ==
  cp.openpilotLongitudinalControl /\ ~cp.ESCC_enabled /\ ~cp.interceptor_available

\* C6, as claimed: with openpilot longitudinal control and neither ESCC nor the interceptor,
\* a tick emits the keep-alive iff its counter is a multiple of 100; otherwise no tick does.
C6_KeepAliveNoSubstitute ==
  frame > 0
    => IF NoSubstitute(CP)
       THEN Count(can_sends, KeepAlive) > 0 <=> Tick % 100 = 0
       ELSE Count(can_sends, KeepAlive) = 0

\* C6, amended: with openpilot longitudinal control, neither ESCC nor the interceptor, and
\* the platform not a camera-SCC CAN FD platform, a tick emits the keep-alive iff its counter
\* is a multiple of 100 (5 ticks of the first 500: 0, 100, 200, 300, 400); on every other
\* platform no tick emits it.
C6_KeepAlive ==
  frame > 0
    => IF NoSubstitute(CP) /\ ~CP.CANFD_CAMERA_SCC
       THEN /\ Count(can_sends, KeepAlive) > 0 <=> Tick % 100 = 0
            /\ sent.tester_present = (frame + 99) \div 100
            /\ frame = 500 => sent.tester_present = 5
       ELSE Count(can_sends, KeepAlive) = 0 /\ sent.tester_present = 0

\* C6: the keep-alive of tick 400, the fifth
C6_Witness ==
  /\ NoSubstitute(CP) /\ ~CP.CANFD_CAMERA_SCC
  /\ Tick = 400
  /\ Count(can_sends, KeepAlive) > 0
  /\ sent.tester_present = 5

\* C7: on both buses a tick emits the acceleration command iff longitudinal control is
\* openpilot's and the tick counter is even (250 ticks of the first 500).
C7_AccelEveryOtherTick ==
  frame > 0
    => /\ Count(can_sends, AccelCommand) > 0
            <=> (CP.openpilotLongitudinalControl /\ Tick % 2 = 0)
       /\ sent.accel = IF CP.openpilotLongitudinalControl THEN (frame + 1) \div 2 ELSE 0
       /\ (CP.openpilotLongitudinalControl /\ frame = 500) => sent.accel = 250

\* C7: the last acceleration command of a 500-tick run on the legacy bus
C7_Witness ==
  /\ ~CP.CANFD
  /\ CP.openpilotLongitudinalControl
  /\ Tick = 498
  /\ Count(can_sends, AccelCommand) > 0
  /\ sent.accel = 250

\* C8: the platform condition of the lane icon: SEND_LFA on the legacy bus; on the extended
\* bus, no LKA steering, or LKA steering with openpilot longitudinal control
LaneIconFlag(cp) ==
  IF cp.CANFD
  THEN ~cp.CANFD_LKA_STEERING \/ cp.openpilotLongitudinalControl
  ELSE cp.SEND_LFA

\* C8: with the lane-icon flag of the platform set, a tick emits exactly one lane-icon
\* message if its counter is a multiple of 5 and none otherwise (100 in the first 500
\* ticks), whatever the cruise intents and, on the legacy bus, whoever controls
\* longitudinally.
C8_LaneIconEveryFifthTick ==
  (frame > 0 /\ LaneIconFlag(CP))
    => /\ Count(can_sends, LaneIcon) = IF Tick % 5 = 0 THEN 1 ELSE 0
       /\ sent.lane_icon = (frame + 4) \div 5
       /\ frame = 500 => sent.lane_icon = 100

\* C8: a lane icon on a legacy platform with stock longitudinal control, on a tick with a
\* cancel request
C8_Witness ==
  /\ ~CP.CANFD /\ CP.SEND_LFA /\ ~CP.openpilotLongitudinalControl
  /\ Tick = 100
  /\ CC.cruiseControl.cancel
  /\ Count(can_sends, LaneIcon) = 1
  /\ sent.lane_icon = 21

\* C9: legacy bus, openpilot longitudinal control: a tick emits the ACC options iff its
\* counter is a multiple of 20 (25 of the first 500) and the radar options iff its counter is
\* a multiple of 50 and ESCC is not enabled (10 of the first 500, or 0 with ESCC).
C9_OptionsCadence ==
  (frame > 0 /\ ~CP.CANFD /\ CP.openpilotLongitudinalControl)
    => /\ Count(can_sends, AccOptions) > 0 <=> Tick % 20 = 0
       /\ Count(can_sends, RadarOption) > 0 <=> (Tick % 50 = 0 /\ ~CP.ESCC_enabled)
       /\ sent.acc_opt = (frame + 19) \div 20
       /\ sent.frt_radar_opt = IF CP.ESCC_enabled THEN 0 ELSE (frame + 49) \div 50
       /\ frame = 500 => /\ sent.acc_opt = 25
                         /\ sent.frt_radar_opt = IF CP.ESCC_enabled THEN 0 ELSE 10

\* C9: tick 400 with ESCC enabled: the ACC options and no radar options
C9_Witness ==
  /\ ~CP.CANFD /\ CP.openpilotLongitudinalControl /\ CP.ESCC_enabled
  /\ Tick = 400
  /\ Count(can_sends, AccOptions) > 0
  /\ Count(can_sends, RadarOption) = 0
  /\ sent.acc_opt = 21
  /\ sent.frt_radar_opt = 0

\* C10: the categories of the priority order; a message of no category has rank 0
Ranked(name) ==
  name \in KeepAlive \cup SteeringCommand \cup LaneSuppression \cup LaneIcon
           \cup ButtonMessage \cup AccelCommand \cup AccOptions \cup RadarOption

\* C10: the order the claim states
StatedRank(name) ==
  CASE name \in KeepAlive -> 1
    [] name \in SteeringCommand -> 2
    [] name \in LaneSuppression \cup LaneIcon -> 3
    [] name \in ButtonMessage -> 4
    [] name \in AccelCommand -> 5
    [] name \in AccOptions -> 6
    [] name \in RadarOption -> 7
    [] OTHER -> 0

\* C10: the order of the legacy bus, the lane icon after the acceleration command
LegacyRank(name) ==
  CASE name \in KeepAlive -> 1
    [] name \in SteeringCommand -> 2
    [] name \in ButtonMessage -> 3
    [] name \in AccelCommand -> 4
    [] name \in LaneIcon -> 5
    [] name \in AccOptions -> 6
    [] name \in RadarOption -> 7
    [] OTHER -> 0

\* C10, as claimed: in every tick's list no message of a later category of keep-alive,
\* steering, lane suppression / lane icon, button, acceleration, ACC options, radar options
\* precedes a message of an earlier one.
C10_StatedOrder ==
  \A i, j \in DOMAIN can_sends :
     (i < j /\ Ranked(can_sends[i].name) /\ Ranked(can_sends[j].name))
       => StatedRank(can_sends[i].name) <= StatedRank(can_sends[j].name)

\* C10, amended: on the extended bus the list is in the stated order; on the legacy bus it is
\* in the order keep-alive, steering, button, acceleration, lane icon, ACC options, radar
\* options.
C10_BusOrder ==
  \A i, j \in DOMAIN can_sends :
     (i < j /\ Ranked(can_sends[i].name) /\ Ranked(can_sends[j].name))
       => IF CP.CANFD
          THEN StatedRank(can_sends[i].name) <= StatedRank(can_sends[j].name)
          ELSE LegacyRank(can_sends[i].name) <= LegacyRank(can_sends[j].name)

\* C10: a legacy list with a keep-alive, the steering command, the acceleration command, the
\* lane icon, the ACC options and the radar options
C10_Witness ==
  /\ ~CP.CANFD
  /\ Tick = 100
  /\ Count(can_sends, KeepAlive) = 1
  /\ Count(can_sends, AccelCommand) = 1
  /\ Count(can_sends, LaneIcon) = 1
  /\ Count(can_sends, AccOptions) = 1
  /\ Count(can_sends, RadarOption) = 1

\* C11: the ticks within which the override reaches the minimum gain from the maximum
\* gain, ceil((maxGain - minGain) / 0.004)
OverrideTicks ==
  (tuning.max_torque_reduction_gain - tuning.min_torque_reduction_gain + 3) \div 4

\* C11: the override of the claim: minGain 0.1, 25 override cycles, started at maxGain
OverrideFromMax(h) ==
  /\ CP.CANFD_ANGLE_STEERING
  /\ tuning.min_torque_reduction_gain = 100
  /\ tuning.angle_torque_override_cycles = 25
  /\ h.override_ticks > 0
  /\ h.override_from = tuning.max_torque_reduction_gain

\* C11: while the driver overrides from the maximum gain with lateral control active, the
\* gain never increases, every tick that leaves it above minGain lowers it by at least
\* 0.004, and after ceil((maxGain - minGain) / 0.004) ticks of override it is minGain and
\* stays minGain.
C11_OverrideConverges ==
  /\ [](OverrideFromMax(hist) /\ hist.override_ticks >= OverrideTicks
          => apply_torque_last = tuning.min_torque_reduction_gain)
  /\ [][OverrideFromMax(hist')
          => /\ apply_torque_last' <= apply_torque_last
             /\ apply_torque_last' > tuning.min_torque_reduction_gain
                  => apply_torque_last - apply_torque_last' >= 4
             /\ apply_torque_last = tuning.min_torque_reduction_gain
                  => apply_torque_last' = tuning.min_torque_reduction_gain]_vars

\* C11: the 225th tick of an override that started at the maximum gain
C11_Witness ==
  /\ OverrideFromMax(hist)
  /\ hist.override_ticks = OverrideTicks
  /\ apply_torque_last = tuning.min_torque_reduction_gain

\* C12: the largest change of the commanded angle in one tick at speed v: the kinematic
\* cap at v, and never more than 5 degrees
AngleRateCap(v) == Min(get_max_angle_delta(v), MAX_ANGLE_RATE)

\* C12: in angle mode at a speed above 0, on a tick with lateral control active that is
\* the first tick or follows an active tick at the same speed (so on every tick of a run
\* at constant speed with lateral control always active), the commanded angle differs
\* from the one of the tick before by at most min(kinematic cap at that speed, 5 deg).
C12_AngleRateLimited ==
  [][/\ CP.CANFD_ANGLE_STEERING
     /\ CC'.latActive
     /\ CS'.out.vEgoRaw > 0
     /\ frame = 0 \/ (CC.latActive /\ CS.out.vEgoRaw = CS'.out.vEgoRaw)
     => Abs(apply_angle_last' - apply_angle_last) <= AngleRateCap(CS'.out.vEgoRaw)]_vars

\* C12: two active ticks at 20 m/s from the start, each moving the commanded angle by the
\* whole cap
C12_Witness ==
  /\ CP.CANFD_ANGLE_STEERING
  /\ frame = 2
  /\ CC.latActive
  /\ CS.out.vEgoRaw = 200
  /\ apply_angle_last = 2 * AngleRateCap(200)

\* C13 as stated: in angle mode, on the second of two ticks in a row with lateral control
\* inactive, the commanded angle equals the measured steering angle of that tick.
C13_InactiveTracksMeasured ==
  [][/\ CP.CANFD_ANGLE_STEERING
     /\ frame > 0
     /\ ~CC.latActive
     /\ ~CC'.latActive
     => apply_angle_last' = CS'.out.steeringAngleDeg]_vars

\* C13: in angle mode, on every tick with lateral control inactive (the second of two in
\* a row among them), the commanded angle equals the measured steering angle of that tick
\* clamped to [-maxSteerAngle, maxSteerAngle], whatever the requested angle, the speed
\* and the angle commanded before.
C13_InactiveTracksClamped ==
  CP.CANFD_ANGLE_STEERING /\ frame > 0 /\ ~CC.latActive
    => /\ apply_angle_last = Clip(CS.out.steeringAngleDeg, -STEER_ANGLE_MAX, STEER_ANGLE_MAX)
       /\ new_actuators.steeringAngleDeg = apply_angle_last

\* C13: an inactive tick at 20 m/s, not the first tick, that commands the clamped
\* -180 degrees for the measured -200 degrees although 900 degrees are requested
C13_Witness ==
  /\ CP.CANFD_ANGLE_STEERING
  /\ frame > 1
  /\ ~CC.latActive
  /\ CC.actuators.steeringAngleDeg = 90000
  /\ CS.out.vEgoRaw = 200
  /\ CS.out.steeringAngleDeg = -20000
  /\ apply_angle_last = -STEER_ANGLE_MAX

\* the steering commands of a list: the legacy lkas11 and the extended-bus steering
\* messages
SteeringCommands(msgs) == {i \in DOMAIN msgs : msgs[i].name \in SteeringCommand}

\* C14: on every tick with lateral control inactive, in torque mode and in angle mode, the
\* final torque output is zero in every steering command sent, in the returned actuator
\* state and in the persisted last-commanded torque.
C14_InactiveTorqueZero ==
  frame > 0 /\ ~CC.latActive
    => /\ \A i \in SteeringCommands(can_sends) : can_sends[i].args.apply_torque = 0
       /\ new_actuators.torqueOutputCan = 0
       /\ new_actuators.torque[1] = 0
       /\ apply_torque_last = 0

\* C14: an inactive tick in angle mode, where the clamped gain is at least minGain, that
\* sends a steering command with torque zero although torque is requested
C14_Witness ==
  /\ frame > 1
  /\ CP.CANFD_ANGLE_STEERING
  /\ ~CC.latActive
  /\ CC.actuators.torque # 0
  /\ SteeringCommands(can_sends) # {}
  /\ apply_torque_last = 0

\* C15 as stated: whenever longitudinal control is not self-managed and a cancel is
\* requested on a tick, the tick's list holds a cancel message, on both buses.
C15_CancelImmediate ==
  frame > 0 /\ ~CP.openpilotLongitudinalControl /\ CC.cruiseControl.cancel
    => CancelCount(can_sends) > 0

\* C15: with longitudinal control not self-managed and a cancel requested on a tick, the
\* legacy bus emits one cancel message in that tick's list however recently a button
\* message was sent; the extended bus emits the cancel only when more than 25 ticks
\* have elapsed since the last-sent latch, and emits no button message otherwise.
C15_CancelImmediateLegacy ==
  frame > 0 /\ ~CP.openpilotLongitudinalControl /\ CC.cruiseControl.cancel
    => IF ~CP.CANFD
       THEN CancelCount(can_sends) = 1 /\ Count(can_sends, ButtonMessage) = 1
       ELSE /\ CancelCount(can_sends) = Count(can_sends, ButtonMessage)
            /\ CancelCount(can_sends) > 0 => Tick > 25 /\ last_button_frame = Tick
            /\ CancelCount(can_sends) = 0 => Tick - last_button_frame <= 25

\* C15: a cancel on the extended bus that is not sent, a button batch having been sent
\* less than 26 ticks before
C15_Witness ==
  /\ CP.CANFD
  /\ ~CP.openpilotLongitudinalControl
  /\ CC.cruiseControl.cancel
  /\ last_button_frame > 0
  /\ CancelCount(can_sends) = 0

\* C16 as stated: after every tick the persisted last-commanded acceleration equals the
\* requested acceleration clamped to [minAccel, maxAccel].
C16_AccelPersistedEveryTick ==
  frame > 0 => accel_last = Accel(CC.actuators)

\* C16: a tick on the extended bus with self-managed longitudinal control and an even tick
\* counter leaves the persisted last-commanded acceleration equal to the requested
\* acceleration clamped to [minAccel, maxAccel]; every other tick (odd counter, legacy
\* bus, longitudinal control not self-managed) leaves it unchanged, 0 from construction.
C16_AccelPersistedWhenSent ==
  [][IF CP.CANFD /\ CP.openpilotLongitudinalControl /\ frame % 2 = 0
     THEN accel_last' = Accel(CC'.actuators)
     ELSE accel_last' = accel_last]_vars

\* C16: an odd tick on the extended bus that keeps the acceleration of the even tick
\* before it, the clamped -3.5, while 1.0 is requested
C16_Witness ==
  /\ CP.CANFD
  /\ CP.openpilotLongitudinalControl
  /\ Tick % 2 = 1
  /\ CC.actuators.accel = 100
  /\ accel_last = ACCEL_MIN

\* C17: on every tick the fault flag handed to the legacy steering message equals
\* latActive and not requestAllowed, so it is never true together with requestAllowed
\* and is false on every tick with lateral control inactive; the extended-bus steering
\* messages carry no fault flag.
C17_TorqueFault ==
  frame > 0
    => \A i \in SteeringCommands(can_sends) :
         LET args == can_sends[i].args
         IN  IF can_sends[i].name = "lkas11"
             THEN /\ ~CP.CANFD
                  /\ args.torque_fault = (CC.latActive /\ ~args.apply_steer_req)
                  /\ ~(args.torque_fault /\ args.apply_steer_req)
                  /\ ~CC.latActive => ~args.torque_fault
             ELSE CP.CANFD /\ "torque_fault" \notin DOMAIN args

\* C17: a tick on the legacy bus with lateral control active whose steering message
\* carries the fault flag, the wheel having been beyond the angle limit for 90 ticks
C17_Witness ==
  /\ ~CP.CANFD
  /\ CC.latActive
  /\ \E i \in SteeringCommands(can_sends) :
        can_sends[i].args.torque_fault /\ ~can_sends[i].args.apply_steer_req

\* C18: in angle mode, a tick at 20 m/s with lateral control active, no press on the
\* wheel, 10 degrees requested and 0 degrees commanded last commands an angle strictly
\* between 0 and 10 degrees, and the same angle (the rate cap at 20 m/s) whatever the
\* rest of the persisted state and of the inputs: the call is deterministic.
C18_LimiterScenario ==
  [][/\ CP.CANFD_ANGLE_STEERING
     /\ apply_angle_last = 0
     /\ CC'.latActive
     /\ ~CS'.out.steeringPressed
     /\ CS'.out.vEgoRaw = 200
     /\ CC'.actuators.steeringAngleDeg = 1000
     => /\ apply_angle_last' > 0
        /\ apply_angle_last' < 1000
        /\ apply_angle_last' = AngleRateCap(200)
        /\ new_actuators'.steeringAngleDeg = apply_angle_last']_vars

\* C18: the scenario run on a later tick than the first, after an inactive tick left the
\* last commanded angle at the measured 0 degrees
C18_Witness ==
  /\ CP.CANFD_ANGLE_STEERING
  /\ frame > 2
  /\ CC.latActive
  /\ ~CS.out.steeringPressed
  /\ CS.out.vEgoRaw = 200
  /\ CC.actuators.steeringAngleDeg = 1000
  /\ apply_angle_last = AngleRateCap(200)

\* C19: the target of the gain: the magnitude of the requested torque fraction clamped to
\* [activeGain, maxGain]
GainTarget(cc) ==
  Clip(Abs(cc.actuators.torque), tuning.active_torque_reduction_gain,
       tuning.max_torque_reduction_gain)

\* C19: the gain new is one step from the gain last toward target: at most rampDownRate
\* below it or rampUpRate above it, and not beyond target
OneStepToward(last, new, target) ==
  IF last > target
  THEN target <= new /\ new <= last /\ last - new <= tuning.ramp_down_reduction_gain_rate
  ELSE last <= new /\ new <= target /\ new - last <= tuning.ramp_up_reduction_gain_rate

\* C19 as stated: in angle mode, on every tick with lateral control active and the driver
\* not pressing, the first active tick after inactive ones included, the gain is one
\* step from the persisted gain of the tick before toward its target.
C19_GainOneStep ==
  [][CP.CANFD_ANGLE_STEERING /\ CC'.latActive /\ ~CS'.out.steeringPressed
       => OneStepToward(apply_torque_last, apply_torque_last', GainTarget(CC'))]_vars

\* C19: in angle mode, on every tick with lateral control active and the driver not
\* pressing: when the persisted gain of the tick before is at least minGain, the gain is
\* one step from it toward its target; when it is below minGain (0, at the start and
\* after an inactive tick), the gain is the one step from it clamped up to minGain.
C19_GainOneStepOrFloor ==
  [][CP.CANFD_ANGLE_STEERING /\ CC'.latActive /\ ~CS'.out.steeringPressed
       => IF apply_torque_last >= tuning.min_torque_reduction_gain
          THEN OneStepToward(apply_torque_last, apply_torque_last', GainTarget(CC'))
          ELSE /\ apply_torque_last = 0
               /\ apply_torque_last' =
                    Max(tuning.min_torque_reduction_gain,
                        Min(tuning.ramp_up_reduction_gain_rate, GainTarget(CC')))]_vars

\* C19: an active tick, not the first tick, that leaves the gain at minGain, below its
\* target and with the driver not pressing: the gain before it was 0, the tick before
\* having been inactive
C19_Witness ==
  /\ CP.CANFD_ANGLE_STEERING
  /\ frame > 1
  /\ CC.latActive
  /\ ~CS.out.steeringPressed
  /\ apply_torque_last = tuning.min_torque_reduction_gain
  /\ apply_torque_last < GainTarget(CC)

\* C20: on the extended bus with longitudinal control not self-managed, a tick emits
\* button messages only when more than 25 ticks have elapsed since the last-sent latch
\* (so never before tick 26), and then sets the latch to its tick, so that the next
\* emission is at least 26 ticks later; the emission is a batch of exactly 20 messages,
\* or exactly one cancel message under the alt-button flag; a tick that emits none, as
\* a resume request under the alt-button flag does, leaves the latch unchanged.
C20_ExtendedButtons ==
  [][CP.CANFD /\ ~CP.openpilotLongitudinalControl
       => /\ IF Count(can_sends', ButtonMessage) > 0
             THEN /\ frame - last_button_frame > 25
                  /\ frame >= 26
                  /\ last_button_frame' = frame
                  /\ IF CP.CANFD_ALT_BUTTONS
                     THEN Count(can_sends', ButtonMessage) = 1 /\ CancelCount(can_sends') = 1
                     ELSE /\ Count(can_sends', ButtonMessage) = 20
                          /\ 20 \in {CancelCount(can_sends'), ResumeCount(can_sends')}
             ELSE last_button_frame' = last_button_frame
          /\ CP.CANFD_ALT_BUTTONS /\ CC'.cruiseControl.resume /\ ~CC'.cruiseControl.cancel
               => Count(can_sends', ButtonMessage) = 0]_vars

\* C20: a batch of 20 on tick 52, the earliest tick of a second emission
C20_Witness ==
  /\ CP.CANFD
  /\ ~CP.openpilotLongitudinalControl
  /\ ~CP.CANFD_ALT_BUTTONS
  /\ Tick = 52
  /\ last_button_frame = 52
  /\ hist.since_resume = 0
  /\ ResumeCount(can_sends) = 20

\* C21: button messages (cancel or resume) are in a tick's list only when longitudinal
\* control is not self-managed, and acceleration, ACC-options and radar-option messages
\* only when it is self-managed; no list holds both a button message and an
\* acceleration command; on the legacy bus a cancel requested together with a resume
\* emits the single cancel message and nothing else of the buttons.
C21_ButtonsOrLongitudinal ==
  frame > 0
    => /\ Count(can_sends, ButtonMessage) > 0 => ~CP.openpilotLongitudinalControl
       /\ Count(can_sends, AccelCommand \cup AccOptions \cup RadarOption) > 0
            => CP.openpilotLongitudinalControl
       /\ ~(Count(can_sends, ButtonMessage) > 0 /\ Count(can_sends, AccelCommand) > 0)
       /\ (~CP.CANFD /\ ~CP.openpilotLongitudinalControl
             /\ CC.cruiseControl.cancel /\ CC.cruiseControl.resume)
            => /\ Count(can_sends, ButtonMessage) = 1
               /\ CancelCount(can_sends) = 1
               /\ ResumeCount(can_sends) = 0

\* C21: a cancel and a resume requested together on the legacy bus, more than 10 ticks
\* after the latch, so that the resume alone would have emitted its batch
C21_Witness ==
  /\ ~CP.CANFD
  /\ ~CP.openpilotLongitudinalControl
  /\ CC.cruiseControl.cancel
  /\ CC.cruiseControl.resume
  /\ Tick - last_button_frame > 10
  /\ CancelCount(can_sends) = 1
  /\ Count(can_sends, ButtonMessage) = 1

\* C22: in every reachable state the last-button-send latch is at most the tick counter,
\* and it is 0 throughout when longitudinal control is self-managed; no tick lowers it,
\* and a tick changes it only when it emits a button message, setting it to its own
\* tick: on the legacy bus only with a resume batch at least 15 ticks after the latch,
\* never with a cancel.
C22_ButtonLatch ==
  /\ [](/\ last_button_frame <= frame
        /\ CP.openpilotLongitudinalControl => last_button_frame = 0)
  /\ [][/\ last_button_frame' >= last_button_frame
        /\ last_button_frame' # last_button_frame
             => /\ Count(can_sends', ButtonMessage) > 0
                /\ last_button_frame' = frame
                /\ ~CP.CANFD => /\ ResumeCount(can_sends') = 25
                                /\ CancelCount(can_sends') = 0
                                /\ frame - last_button_frame >= 15]_vars

\* C22: a tick on the legacy bus that moves the latch to its own tick, 30, with a resume
\* batch
C22_Witness ==
  /\ ~CP.CANFD
  /\ ~CP.openpilotLongitudinalControl
  /\ Tick = 30
  /\ last_button_frame = 30
  /\ ResumeCount(can_sends) = 25

====
